---- MODULE Spec2Model ----
(***************************************************************************)
(* Model of the hot/cold tiered index of hctree.c: hc_create, hc_insert,   *)
(* hc_search (with hc_maybe_adapt_sampling and maybe_promote),             *)
(* hc_range_search and hc_get_stats.                                        *)
(*                                                                         *)
(* Numbers.  The doubles of the program are modelled exactly:              *)
(*   - sampling_rate, last_D and the random draw u are integers in        *)
(*     hundredths (One = 1.0, Step = 0.05);                                *)
(*   - decay_alpha, hot_threshold and max_hot_fraction are integers in     *)
(*     quarters (Q = 1.0), all exactly representable as doubles;           *)
(*   - hit_score[k] and last_cost are fractions [n, d] in lowest terms.    *)
(* Within the bounds below every value the program computes is a dyadic    *)
(* fraction of a few bits (scores) or a quotient whose sign of difference  *)
(* is far above the rounding error (costs), so the exact arithmetic takes  *)
(* the same branches as the double arithmetic of the code.                 *)
(*                                                                         *)
(* The ordered index (bt_create, bt_insert, bt_search, bt_range_search,    *)
(* bt_count_keys) is not part of hctree.c; it is modelled from its         *)
(* contract as a finite map from keys to payloads.                         *)
(*                                                                         *)
(* The adapter's window of 5000 queries is scaled to MIN_DELTA_Q queries:  *)
(* the code reads the window only in q - last_q_for_adapt < MIN_DELTA_Q.   *)
(***************************************************************************)
EXTENDS Integers, Sequences, FiniteSets, TLC

VARIABLES hot, cold, max_key, hit_score, params, stats,
          last_q_for_adapt, last_cost, last_D, ret

vars == <<hot, cold, max_key, hit_score, params, stats,
          last_q_for_adapt, last_cost, last_D, ret>>

index == <<hot, cold, max_key, hit_score, params, stats,
           last_q_for_adapt, last_cost, last_D>>

----------------------------------------------------------------------------
(* Bounds of the model *)

\* keys of the domain are 0..MaxKey
MaxKey == 1
\* hc_search is called at most MaxQueries times
MaxQueries == 3
\* hc_range_search is called at most MaxScans times
MaxScans == 1
\* the adaptation window, in queries (5000 in the source, hctree.c:54); the
\* adapter reads it only in the comparison q - last_q_for_adapt < MIN_DELTA_Q
MIN_DELTA_Q == 5

----------------------------------------------------------------------------
(* Units *)

\* 1.0 in hundredths (sampling_rate, u)
One == 100
\* the adapter's step 0.05 in hundredths
Step == 5
\* 1.0 in quarters (decay_alpha, hot_threshold, max_hot_fraction)
Q == 4

NULL == "NULL"
Payloads == {NULL, "A"}

Keys == 0..MaxKey
\* keys a caller may pass, in range or not
CallKeys == (0 - 1)..(MaxKey + 1)
\* values of the random draw u = rand() / (RAND_MAX + 1), in [0, 1): the
\* least one, and one above every sampling rate but 1.0
Draws == {0, 97}

----------------------------------------------------------------------------
(* Fractions *)

RECURSIVE Gcd(_, _)
Gcd(a, b) == IF b = 0 THEN a ELSE Gcd(b, a % b)

Abs(x) == IF x < 0 THEN 0 - x ELSE x

\* n / d in lowest terms, d > 0
Rat(n, d) == LET g == Gcd(Abs(n), d) IN [n |-> n \div g, d |-> d \div g]

Zero == [n |-> 0, d |-> 1]

\* the sign of a - b
SignDiff(a, b) ==
    LET x == a.n * b.d - b.n * a.d
    IN IF x < 0 THEN 0 - 1 ELSE IF x > 0 THEN 1 ELSE 0

Sign(x) == IF x < 0 THEN 0 - 1 ELSE IF x > 0 THEN 1 ELSE 0

----------------------------------------------------------------------------
(* The ordered index: a finite map from keys to payloads *)

bt_create == << >>

bt_insert(t, k, v) ==
    [x \in (DOMAIN t) \cup {k} |-> IF x = k THEN v ELSE t[x]]

\* the payload of k, NULL when k is absent
bt_search(t, k) == IF k \in DOMAIN t THEN t[k] ELSE NULL

bt_count_keys(t) == Cardinality(DOMAIN t)

\* the keys of t in [lo, hi], ascending
RECURSIVE bt_range_search(_, _, _)
bt_range_search(t, lo, hi) ==
    IF lo > hi THEN << >>
    ELSE (IF lo \in DOMAIN t THEN <<lo>> ELSE << >>)
         \o bt_range_search(t, lo + 1, hi)

\* nodes one descent or scan of t visits: a tree of at most 2*degree - 1
\* keys is its root alone
bt_node_visits(t) == 1

----------------------------------------------------------------------------
(* hc_create *)

NoStats == [queries |-> 0, hot_hits |-> 0, cold_hits |-> 0, not_found |-> 0,
            hot_node_visits |-> 0, cold_node_visits |-> 0]

\* the last call and what it handed back to its caller: the function called
\* (op) with its key arguments (k, or the interval [k, hi]), the payload
\* hc_search returned (v) and the branch it took, the message hc_insert
\* printed, the callbacks hc_range_search made, the record hc_get_stats
\* returned
NoRet == [op |-> "create", k |-> 0, hi |-> 0, v |-> NULL, outcome |-> "none",
          emitted |-> << >>, st |-> NoStats,
          hot_keys |-> 0, cold_keys |-> 0, final_sampling_rate |-> 0]

\* the configurations hc_create is called with: no decay with a threshold
\* of 1.0 (the first hit is eligible) or a decay of 0.5 with a threshold of
\* 1.5 (the second hit is); a sampling rate of 0.5, under which a draw may
\* pass or fail; a capacity of a quarter or of all of the key domain
ParamSet ==
    {p \in [adapt_sampling : {FALSE},
            sampling_rate : {50},
            decay_alpha : {0, 2},
            hot_threshold : {4, 6},
            max_hot_fraction : {1, Q},
            inclusive : {TRUE}] :
       p.hot_threshold = Q + p.decay_alpha}

hc_create(mk, p) ==
    /\ hot = bt_create
    /\ cold = bt_create
    /\ max_key = mk
    /\ hit_score = [k \in 0..mk |-> Zero]
    /\ params = p
    /\ stats = NoStats
    /\ last_q_for_adapt = 0
    /\ last_cost = Zero
    /\ last_D = p.sampling_rate
    /\ ret = NoRet

Init == \E p \in ParamSet : hc_create(MaxKey, p)

----------------------------------------------------------------------------
(* hc_insert *)

InRange(k) == k >= 0 /\ k <= max_key

\* hc_insert writing the hot tier instead of the cold one
hc_insert_hot(k, v) ==
    /\ IF k < 0 \/ k > max_key
       THEN /\ hot' = hot
            /\ ret' = [NoRet EXCEPT !.op = "insert", !.k = k,
                                    !.outcome = "out_of_range"]
       ELSE /\ hot' = bt_insert(hot, k, v)
            /\ ret' = [NoRet EXCEPT !.op = "insert", !.k = k]
    /\ UNCHANGED <<cold, max_key, hit_score, params, stats,
                   last_q_for_adapt, last_cost, last_D>>

\* hc_insert without its range check
hc_insert_unchecked(k, v) ==
    /\ cold' = bt_insert(cold, k, v)
    /\ ret' = [NoRet EXCEPT !.op = "insert", !.k = k]
    /\ UNCHANGED <<hot, max_key, hit_score, params, stats,
                   last_q_for_adapt, last_cost, last_D>>

\* hc_insert writing through to both tiers
hc_insert_both(k, v) ==
    /\ IF k < 0 \/ k > max_key
       THEN /\ UNCHANGED <<hot, cold>>
            /\ ret' = [NoRet EXCEPT !.op = "insert", !.k = k,
                                    !.outcome = "out_of_range"]
       ELSE /\ cold' = bt_insert(cold, k, v)
            /\ hot' = bt_insert(hot, k, v)
            /\ ret' = [NoRet EXCEPT !.op = "insert", !.k = k]
    /\ UNCHANGED <<max_key, hit_score, params, stats,
                   last_q_for_adapt, last_cost, last_D>>

hc_insert(k, v) ==
    /\ IF k < 0 \/ k > max_key
       THEN /\ cold' = cold
            /\ ret' = [NoRet EXCEPT !.op = "insert", !.k = k,
                                    !.outcome = "out_of_range"]
       ELSE /\ cold' = bt_insert(cold, k, v)
            /\ ret' = [NoRet EXCEPT !.op = "insert", !.k = k]
    /\ UNCHANGED <<hot, max_key, hit_score, params, stats,
                   last_q_for_adapt, last_cost, last_D>>

----------------------------------------------------------------------------
(* hc_maybe_adapt_sampling, called by hc_search with the statistics st in   *)
(* which queries is already incremented.  The result is the adapter's      *)
(* state after the call.                                                   *)

Clamp(D) == IF D < 0 THEN 0 ELSE IF D > One THEN One ELSE D

\* hot_frac < target_hot, with hot_frac = hot_hits / (q ? q : 1) and
\* target_hot = 0.6
HotFracLow(st) ==
    LET q == st.queries
        qq == IF q # 0 THEN q ELSE 1
    IN st.hot_hits * 10 < 6 * qq

AdaptNoChange ==
    [sampling_rate |-> params.sampling_rate, last_D |-> last_D,
     last_cost |-> last_cost, last_q_for_adapt |-> last_q_for_adapt]

\* the decision rule with its two moves exchanged: reverse when the cost
\* moved against D, reinforce when it moved with D
AdaptMove_exchanged(st, cost) ==
    LET D == params.sampling_rate
        dC == SignDiff(cost, last_cost)
        dD == D - last_D
    IN IF last_q_for_adapt = 0
       THEN (IF HotFracLow(st) THEN D + Step ELSE D - Step)
       ELSE IF dD = 0
            THEN (IF HotFracLow(st) THEN D + Step ELSE D - Step)
            ELSE IF dC * Sign(dD) < 0 THEN D - Step * Sign(dD)
                 ELSE IF dC * Sign(dD) > 0 THEN D + Step * Sign(dD)
                 ELSE D

\* the sampling rate the adaptation moves to, before the clamp
AdaptMove(st, cost) ==
    LET D == params.sampling_rate
        dC == SignDiff(cost, last_cost)
        dD == D - last_D
    IN IF last_q_for_adapt = 0
       THEN (IF HotFracLow(st) THEN D + Step ELSE D - Step)
       ELSE IF dD = 0
            THEN (IF HotFracLow(st) THEN D + Step ELSE D - Step)
            ELSE IF dC * Sign(dD) < 0 THEN D + Step * Sign(dD)
                 ELSE IF dC * Sign(dD) > 0 THEN D - Step * Sign(dD)
                 ELSE D

\* hc_maybe_adapt_sampling without the clamp of D
hc_maybe_adapt_sampling_unclamped(st) ==
    LET q == st.queries
        total_nodes == st.hot_node_visits + st.cold_node_visits
        cost == IF q > 0 THEN Rat(total_nodes, q) ELSE Zero
    IN IF ~params.adapt_sampling THEN AdaptNoChange
       ELSE IF q - last_q_for_adapt < MIN_DELTA_Q THEN AdaptNoChange
       ELSE [sampling_rate |-> AdaptMove(st, cost),
             last_D |-> params.sampling_rate,
             last_cost |-> cost,
             last_q_for_adapt |-> q]

\* hc_maybe_adapt_sampling with the window test off by one: it returns
\* while q - last_q_for_adapt <= MIN_DELTA_Q
hc_maybe_adapt_sampling_late(st) ==
    LET q == st.queries
        total_nodes == st.hot_node_visits + st.cold_node_visits
        cost == IF q > 0 THEN Rat(total_nodes, q) ELSE Zero
    IN IF ~params.adapt_sampling THEN AdaptNoChange
       ELSE IF q - last_q_for_adapt <= MIN_DELTA_Q THEN AdaptNoChange
       ELSE [sampling_rate |-> Clamp(AdaptMove(st, cost)),
             last_D |-> params.sampling_rate,
             last_cost |-> cost,
             last_q_for_adapt |-> q]

hc_maybe_adapt_sampling(st) ==
    LET q == st.queries
        total_nodes == st.hot_node_visits + st.cold_node_visits
        cost == IF q > 0 THEN Rat(total_nodes, q) ELSE Zero
    IN IF ~params.adapt_sampling THEN AdaptNoChange
       ELSE IF q - last_q_for_adapt < MIN_DELTA_Q THEN AdaptNoChange
       ELSE [sampling_rate |-> Clamp(AdaptMove(st, cost)),
             last_D |-> params.sampling_rate,
             last_cost |-> cost,
             last_q_for_adapt |-> q]

----------------------------------------------------------------------------
(* maybe_promote: the hot tier after the call, for the draw u and the      *)
(* sampling rate D in force                                                *)

\* (double)hot_keys >= max_hot_fraction * (double)total_keys
AtCapacity(h) ==
    bt_count_keys(h) * Q >= params.max_hot_fraction * (max_key + 1)

\* a promotion controller that empties a full hot tier to make room
maybe_promote_evicting(k, u, D0) ==
    LET D == Clamp(D0)
        room == IF AtCapacity(hot) THEN bt_create ELSE hot
    IN IF ~params.inclusive THEN hot
       ELSE IF u > D THEN hot
       ELSE IF bt_search(hot, k) # NULL THEN hot
       ELSE IF bt_search(cold, k) = NULL THEN hot
       ELSE bt_insert(room, k, bt_search(cold, k))

\* a promotion controller that refuses every promotion
maybe_promote_never(k, u, D0) == hot

maybe_promote(k, u, D0) ==
    LET D == Clamp(D0)
    IN IF ~params.inclusive THEN hot
       ELSE IF u > D THEN hot
       ELSE IF AtCapacity(hot) THEN hot
       ELSE IF bt_search(hot, k) # NULL THEN hot
       ELSE IF bt_search(cold, k) = NULL THEN hot
       ELSE bt_insert(hot, k, bt_search(cold, k))

----------------------------------------------------------------------------
(* hc_search *)

\* the score update without the decay weight: score = old + 1.0
Decay_unweighted(old) == Rat(old.n + old.d, old.d)

\* score = decay_alpha * old + 1.0
Decay(old) == Rat(params.decay_alpha * old.n + Q * old.d, Q * old.d)

\* the threshold test made strict: new_score > hot_threshold
Eligible_strict(score) == Q * score.n > params.hot_threshold * score.d

\* the threshold test dropped: every hit is eligible
Eligible_always(score) == score.n > 0

\* new_score >= hot_threshold
Eligible(score) == Q * score.n >= params.hot_threshold * score.d

\* hc_search updating the score of the key on a miss as well
hc_search_miss_scored(k, u) ==
    LET st1 == [stats EXCEPT !.queries = @ + 1]
        ad == hc_maybe_adapt_sampling(st1)
        hv == bt_search(hot, k)
        st2 == [st1 EXCEPT !.hot_node_visits = @ + bt_node_visits(hot)]
        cv == bt_search(cold, k)
        st3 == [st2 EXCEPT !.cold_node_visits = @ + bt_node_visits(cold)]
        new_score == Decay(hit_score[k])
    IN /\ params' = [params EXCEPT !.sampling_rate = ad.sampling_rate]
       /\ last_D' = ad.last_D
       /\ last_cost' = ad.last_cost
       /\ last_q_for_adapt' = ad.last_q_for_adapt
       /\ UNCHANGED <<cold, max_key>>
       /\ IF hv # NULL
          THEN /\ stats' = [st2 EXCEPT !.hot_hits = @ + 1]
               /\ hit_score' = IF InRange(k)
                               THEN [hit_score EXCEPT ![k] = new_score]
                               ELSE hit_score
               /\ hot' = hot
               /\ ret' = [NoRet EXCEPT !.op = "search", !.k = k, !.v = hv,
                                       !.outcome = "hot_hit"]
          ELSE IF cv # NULL
          THEN /\ stats' = [st3 EXCEPT !.cold_hits = @ + 1]
               /\ hit_score' = IF InRange(k)
                               THEN [hit_score EXCEPT ![k] = new_score]
                               ELSE hit_score
               /\ hot' = IF InRange(k) /\ Eligible(new_score)
                         THEN maybe_promote(k, u, ad.sampling_rate)
                         ELSE hot
               /\ ret' = [NoRet EXCEPT !.op = "search", !.k = k, !.v = cv,
                                       !.outcome = "cold_hit"]
          ELSE /\ stats' = [st3 EXCEPT !.not_found = @ + 1]
               /\ hit_score' = IF InRange(k)
                               THEN [hit_score EXCEPT ![k] = new_score]
                               ELSE hit_score
               /\ hot' = hot
               /\ ret' = [NoRet EXCEPT !.op = "search", !.k = k,
                                       !.outcome = "not_found"]

hc_search(k, u) ==
    LET st1 == [stats EXCEPT !.queries = @ + 1]
        ad == hc_maybe_adapt_sampling(st1)
        hv == bt_search(hot, k)
        st2 == [st1 EXCEPT !.hot_node_visits = @ + bt_node_visits(hot)]
        cv == bt_search(cold, k)
        st3 == [st2 EXCEPT !.cold_node_visits = @ + bt_node_visits(cold)]
        new_score == Decay(hit_score[k])
    IN /\ params' = [params EXCEPT !.sampling_rate = ad.sampling_rate]
       /\ last_D' = ad.last_D
       /\ last_cost' = ad.last_cost
       /\ last_q_for_adapt' = ad.last_q_for_adapt
       /\ UNCHANGED <<cold, max_key>>
       /\ IF hv # NULL
          THEN /\ stats' = [st2 EXCEPT !.hot_hits = @ + 1]
               /\ hit_score' = IF InRange(k)
                               THEN [hit_score EXCEPT ![k] = new_score]
                               ELSE hit_score
               /\ hot' = hot
               /\ ret' = [NoRet EXCEPT !.op = "search", !.k = k, !.v = hv,
                                       !.outcome = "hot_hit"]
          ELSE IF cv # NULL
          THEN /\ stats' = [st3 EXCEPT !.cold_hits = @ + 1]
               /\ hit_score' = IF InRange(k)
                               THEN [hit_score EXCEPT ![k] = new_score]
                               ELSE hit_score
               /\ hot' = IF InRange(k) /\ Eligible(new_score)
                         THEN maybe_promote(k, u, ad.sampling_rate)
                         ELSE hot
               /\ ret' = [NoRet EXCEPT !.op = "search", !.k = k, !.v = cv,
                                       !.outcome = "cold_hit"]
          ELSE /\ stats' = [st3 EXCEPT !.not_found = @ + 1]
               /\ UNCHANGED <<hit_score, hot>>
               /\ ret' = [NoRet EXCEPT !.op = "search", !.k = k,
                                       !.outcome = "not_found"]

----------------------------------------------------------------------------
(* hc_range_search: the scan context is the seen markers and the calls of  *)
(* the user callback made so far                                           *)

NoCtx == [seen |-> {}, out |-> << >>]

hc_range_cb_hot(ctx, k, v) ==
    IF k < 0 \/ k > max_key THEN ctx
    ELSE IF k \notin ctx.seen
         THEN [seen |-> ctx.seen \cup {k}, out |-> Append(ctx.out, <<k, v>>)]
         ELSE ctx

\* hc_range_cb_cold without the seen test
hc_range_cb_cold_nodedup(ctx, k, v) ==
    IF k < 0 \/ k > max_key THEN ctx
    ELSE [seen |-> ctx.seen \cup {k}, out |-> Append(ctx.out, <<k, v>>)]

hc_range_cb_cold(ctx, k, v) ==
    IF k < 0 \/ k > max_key THEN ctx
    ELSE IF k \notin ctx.seen
         THEN [seen |-> ctx.seen \cup {k}, out |-> Append(ctx.out, <<k, v>>)]
         ELSE ctx

\* bt_range_search(idx->hot, lo, hi, hc_range_cb_hot, &ctx, &hot_s)
RECURSIVE ScanHot(_, _)
ScanHot(ctx, ks) ==
    IF ks = << >> THEN ctx
    ELSE ScanHot(hc_range_cb_hot(ctx, Head(ks), hot[Head(ks)]), Tail(ks))

\* bt_range_search(idx->cold, lo, hi, hc_range_cb_cold, &ctx, &cold_s)
RECURSIVE ScanCold(_, _)
ScanCold(ctx, ks) ==
    IF ks = << >> THEN ctx
    ELSE ScanCold(hc_range_cb_cold(ctx, Head(ks), cold[Head(ks)]), Tail(ks))

\* hc_range_search counting the scan as a query
hc_range_search_counted(lo, hi) ==
    LET ctx1 == ScanHot(NoCtx, bt_range_search(hot, lo, hi))
        ctx2 == ScanCold(ctx1, bt_range_search(cold, lo, hi))
    IN /\ stats' = [stats EXCEPT
                      !.queries = @ + 1,
                      !.hot_node_visits = @ + bt_node_visits(hot),
                      !.cold_node_visits = @ + bt_node_visits(cold)]
       /\ ret' = [NoRet EXCEPT !.op = "range_search", !.k = lo, !.hi = hi,
                               !.emitted = ctx2.out]
       /\ UNCHANGED <<hot, cold, max_key, hit_score, params,
                      last_q_for_adapt, last_cost, last_D>>

\* hc_range_search scanning the cold tier before the hot one
hc_range_search_cold_first(lo, hi) ==
    LET ctx1 == ScanCold(NoCtx, bt_range_search(cold, lo, hi))
        ctx2 == ScanHot(ctx1, bt_range_search(hot, lo, hi))
    IN /\ stats' = [stats EXCEPT
                      !.hot_node_visits = @ + bt_node_visits(hot),
                      !.cold_node_visits = @ + bt_node_visits(cold)]
       /\ ret' = [NoRet EXCEPT !.op = "range_search", !.k = lo, !.hi = hi,
                               !.emitted = ctx2.out]
       /\ UNCHANGED <<hot, cold, max_key, hit_score, params,
                      last_q_for_adapt, last_cost, last_D>>

hc_range_search(lo, hi) ==
    LET ctx1 == ScanHot(NoCtx, bt_range_search(hot, lo, hi))
        ctx2 == ScanCold(ctx1, bt_range_search(cold, lo, hi))
    IN /\ stats' = [stats EXCEPT
                      !.hot_node_visits = @ + bt_node_visits(hot),
                      !.cold_node_visits = @ + bt_node_visits(cold)]
       /\ ret' = [NoRet EXCEPT !.op = "range_search", !.k = lo, !.hi = hi,
                               !.emitted = ctx2.out]
       /\ UNCHANGED <<hot, cold, max_key, hit_score, params,
                      last_q_for_adapt, last_cost, last_D>>

----------------------------------------------------------------------------
(* hc_get_stats *)

hc_get_stats ==
    /\ ret' = [NoRet EXCEPT !.op = "get_stats", !.st = stats,
                            !.hot_keys = bt_count_keys(hot),
                            !.cold_keys = bt_count_keys(cold),
                            !.final_sampling_rate = params.sampling_rate]
    /\ UNCHANGED index

----------------------------------------------------------------------------
(* The calls a client makes *)

\* scans made so far: every search and every scan probes hot once
Scans == stats.hot_node_visits - stats.queries

\* the intervals a caller scans: those of the key domain, the one that
\* reaches beyond it on both sides, and an empty one (lo > hi)
Intervals(K) ==
    {r \in K \X K : r[1] >= 0 /\ r[1] <= r[2] /\ r[2] <= max_key}
    \cup {<<0 - 1, max_key + 1>>, <<max_key, 0 - 1>>}

Calls(K, P, maxq, maxs) ==
    \/ \E k \in K, v \in P : hc_insert(k, v)
    \/ \E k \in K, u \in Draws :
          stats.queries < maxq /\ hc_search(k, u)
    \/ \E r \in Intervals(K) :
          Scans < maxs /\ hc_range_search(r[1], r[2])
    \/ hc_get_stats

Next == Calls(CallKeys, Payloads, MaxQueries, MaxScans)

Spec == Init /\ [][Next]_vars

----------------------------------------------------------------------------
(* The adapter at work: a one-key index with adapt_sampling enabled,       *)
(* searched long enough for three adaptations                              *)

AdaptParamSet ==
    [adapt_sampling : {TRUE},
     sampling_rate : {0, One - Step, One},
     decay_alpha : {2},
     hot_threshold : {4},
     max_hot_fraction : {0, Q},
     inclusive : BOOLEAN]

InitAdapt == \E p \in AdaptParamSet : hc_create(0, p)

NextAdapt == Calls({0}, {"A", "B"}, 3 * MIN_DELTA_Q + 1, MaxScans)

SpecAdapt == InitAdapt /\ [][NextAdapt]_vars

----------------------------------------------------------------------------
(* The adapter enabled or disabled: the one-key index searched as long,    *)
(* created with adapt_sampling on or off                                   *)

TriggerParamSet ==
    [adapt_sampling : BOOLEAN,
     sampling_rate : {One - Step, One},
     decay_alpha : {2},
     hot_threshold : {4},
     max_hot_fraction : {Q},
     inclusive : {TRUE}]

InitTrigger == \E p \in TriggerParamSet : hc_create(0, p)

SpecTrigger == InitTrigger /\ [][NextAdapt]_vars

----------------------------------------------------------------------------
(* A sampling rate of 0 that stays 0: the index of Spec created with       *)
(* adapt_sampling disabled, sampling_rate = 0 and a hot tier as large as   *)
(* the domain                                                              *)

ZeroRateParamSet ==
    {p \in [adapt_sampling : {FALSE},
            sampling_rate : {0},
            decay_alpha : {0, 2},
            hot_threshold : {4, 6},
            max_hot_fraction : {Q},
            inclusive : {TRUE}] :
       p.hot_threshold = Q + p.decay_alpha}

InitZeroRate == \E p \in ZeroRateParamSet : hc_create(MaxKey, p)

SpecZeroRate == InitZeroRate /\ [][Next]_vars

----------------------------------------------------------------------------
(* The promote-on-second-hit configuration: a domain of 100 keys, a        *)
(* sampling rate of 1.0, a threshold of 1.5 with a decay of 0.5, a hot     *)
(* tier as large as the domain.  The window of the adapter is longer than  *)
(* the run, so that adapt_sampling makes no difference.                    *)

ScenarioParamSet ==
    [adapt_sampling : BOOLEAN,
     sampling_rate : {One},
     decay_alpha : {2},
     hot_threshold : {6},
     max_hot_fraction : {Q},
     inclusive : {TRUE}]

InitScenario == \E p \in ScenarioParamSet : hc_create(99, p)

\* the calls of the scenario, on key 42 and on key 7, with scans around
\* them
NextScenario ==
    \/ \E k \in {7, 42} : hc_insert(k, "A")
    \/ \E k \in {7, 42}, u \in Draws :
          stats.queries < MaxQueries /\ hc_search(k, u)
    \/ \E r \in {<<7, 42>>, <<40, 45>>, <<42, 7>>} :
          Scans < MaxScans /\ hc_range_search(r[1], r[2])
    \/ hc_get_stats

SpecScenario == InitScenario /\ [][NextScenario]_vars

----------------------------------------------------------------------------
(* Properties.  In the action properties, ret' names the call a step makes: *)
(* a step with ret'.op = "search" is hc_search(ret'.k), and so on.          *)

\* C1: inclusion of keys: on an index created with inclusive = true, every
\* key of the hot tier is a key of the cold tier, in every reachable state.
C1_KeysIncluded == params.inclusive => DOMAIN hot \subseteq DOMAIN cold

\* a search was just a cold hit that promoted its key, next to a key that
\* is in cold only
C1_Witness ==
    /\ ret.op = "search" /\ ret.outcome = "cold_hit"
    /\ ret.k \in DOMAIN hot
    /\ bt_count_keys(cold) = 2 /\ bt_count_keys(hot) = 1

\* C2: inclusion of payloads: every key of the hot tier has in hot the
\* payload it has in cold, in every reachable state (also after an insert
\* that replaces the payload of a promoted key).
C2_PayloadsIdentical ==
    \A k \in DOMAIN hot : k \in DOMAIN cold /\ hot[k] = cold[k]

\* C3: capacity: the hot tier holds at most max_hot_fraction * (max_key + 1)
\* keys in every reachable state, whether or not that product is an integer.
C3_HotWithinCapacity ==
    bt_count_keys(hot) * Q <= params.max_hot_fraction * (max_key + 1)

\* C4: an hc_insert of a key outside [0, max_key] reports the key as out of
\* range and changes nothing of the index (hot, cold, hit_score, stats,
\* params with its sampling_rate, the adapter's state).
C4_InsertOutOfRange ==
    [][(ret'.op = "insert" /\ (ret'.k < 0 \/ ret'.k > max_key))
       => (ret'.outcome = "out_of_range" /\ UNCHANGED index)]_vars

\* an out-of-range insert was just refused on an index that holds keys in
\* both tiers
C4_Witness ==
    /\ ret.op = "insert" /\ ret.outcome = "out_of_range"
    /\ hot # << >>
    /\ stats.queries > 0

\* C5: an hc_search of a key outside [0, max_key] changes none of hot, cold
\* and hit_score, and its outcome is reported as out of range, not as the
\* not-found of an absent key.
C5_SearchOutOfRange ==
    [][(ret'.op = "search" /\ (ret'.k < 0 \/ ret'.k > max_key))
       => (/\ UNCHANGED <<hot, cold, hit_score>>
           /\ ret'.outcome # "not_found")]_vars

\* the keys of cold in [lo, hi]
ColdIn(lo, hi) == {k \in DOMAIN cold : lo <= k /\ k <= hi}

\* C6: hc_range_search(lo, hi, cb) calls cb exactly once for each key of
\* [lo, hi] present in cold and for no other key, whether or not the key is
\* in hot.
C6_RangeDedup ==
    [][ret'.op = "range_search"
       => LET e == ret'.emitted
              want == ColdIn(ret'.k, ret'.hi)
          IN /\ {e[i][1] : i \in DOMAIN e} = want
             /\ Len(e) = Cardinality(want)]_vars

\* a scan just emitted a key that is in both tiers and a key that is in
\* cold only
C6_Witness ==
    /\ ret.op = "range_search"
    /\ \E i, j \in DOMAIN ret.emitted :
          /\ ret.emitted[i][1] \in DOMAIN hot
          /\ ret.emitted[j][1] \notin DOMAIN hot

\* C7: sampling_rate is within [0, 1] after any number of adaptations.
C7_SamplingRateBounded ==
    0 <= params.sampling_rate /\ params.sampling_rate <= One

\* three adaptations have run, and the last one moved the sampling rate
C7_Witness ==
    /\ last_q_for_adapt = 3 * MIN_DELTA_Q
    /\ params.sampling_rate # last_D

\* score >= t, t in quarters
ScoreAtLeast(score, t) == Q * score.n >= t * score.d

\* hot holds fewer than max_hot_fraction * (max_key + 1) keys
BelowCapacity ==
    bt_count_keys(hot) * Q < params.max_hot_fraction * (max_key + 1)

\* a step that is a cold hit on an in-range key and brings its score to
\* hot_threshold or more, made with inclusive = true and hot below capacity
EligibleColdHit ==
    /\ ret'.op = "search" /\ ret'.outcome = "cold_hit"
    /\ ret'.k >= 0 /\ ret'.k <= max_key
    /\ ScoreAtLeast(hit_score'[ret'.k], params.hot_threshold)
    /\ params.inclusive /\ BelowCapacity

\* C8 as stated: when sampling_rate = 1.0 as hc_search(k) is called, with
\* inclusive = true and hot below capacity, a cold hit that brings the score
\* of k to hot_threshold or more leaves k in hot, for every draw u.
C8_PromotedWhenRateOneAtCall ==
    [][(EligibleColdHit /\ params.sampling_rate = One)
       => ret'.k \in DOMAIN hot']_vars

\* C8 amended: the same, with sampling_rate = 1.0 once the adaptation step
\* of that hc_search has run.
C8_PromotedWhenRateOne ==
    [][(EligibleColdHit /\ params'.sampling_rate = One)
       => ret'.k \in DOMAIN hot']_vars

\* a cold hit just promoted its key in the search that ran an adaptation
\* and left the sampling rate at 1.0
C8_Witness ==
    /\ ret.op = "search" /\ ret.outcome = "cold_hit"
    /\ ret.k \in DOMAIN hot
    /\ params.sampling_rate = One
    /\ last_q_for_adapt = stats.queries

\* a < b for fractions
Less(a, b) == a.n * b.d < b.n * a.d

\* score < 1 / (1 - decay_alpha)
BelowLimit(score) == score.n * (Q - params.decay_alpha) < Q * score.d

\* a step that is a hit, hot or cold, on an in-range key
Hit ==
    /\ ret'.op = "search" /\ ret'.outcome \in {"hot_hit", "cold_hit"}
    /\ ret'.k >= 0 /\ ret'.k <= max_key

\* C9 as stated: for every decay_alpha in [0, 1), each hit (hot or cold) on
\* a key strictly increases hit_score[k] and leaves it below
\* 1 / (1 - decay_alpha).
C9_DecayStrict ==
    [][Hit => (/\ Less(hit_score[ret'.k], hit_score'[ret'.k])
               /\ BelowLimit(hit_score'[ret'.k]))]_vars

\* C9 amended: for decay_alpha in (0, 1) each hit strictly increases
\* hit_score[k] and leaves it below 1 / (1 - decay_alpha); for
\* decay_alpha = 0 each hit leaves the score at exactly 1.
C9_Decay ==
    [][Hit => IF params.decay_alpha > 0
              THEN /\ Less(hit_score[ret'.k], hit_score'[ret'.k])
                   /\ BelowLimit(hit_score'[ret'.k])
              ELSE hit_score'[ret'.k] = [n |-> 1, d |-> 1]]_vars

\* a key was hit three times in a row with decay_alpha = 0.5, the last time
\* in hot: its score is 1.75
C9_Witness ==
    /\ ret.op = "search" /\ ret.outcome = "hot_hit"
    /\ params.decay_alpha = 2
    /\ hit_score[ret.k] = [n |-> 7, d |-> 4]

\* C10: the hc_search of a key that was inserted with a NULL payload has an
\* outcome other than that of a key never inserted: it is a hit, not a
\* not_found.
C10_NullPayloadIsHit ==
    [][(/\ ret'.op = "search"
        /\ ret'.k \in DOMAIN cold /\ cold[ret'.k] = NULL)
       => (/\ ret'.outcome \in {"hot_hit", "cold_hit"}
           /\ stats'.not_found = stats.not_found)]_vars

\* cold as insert(42, "A") leaves it
ColdOf42 == bt_insert(bt_create, 42, "A")

\* the score of a key after 0, 1, 2 and 3 hits with decay_alpha = 0.5
ScoreAfterHits ==
    <<[n |-> 1, d |-> 1], [n |-> 3, d |-> 2], [n |-> 7, d |-> 4]>>

\* the index holds key 42 with payload "A" and nothing else, and each of
\* the hc_search calls made so far, at most j of them, was a hit on key 42
AfterHitsOn42(j) ==
    /\ cold = ColdOf42
    /\ stats.queries <= j
    /\ hit_score[42] = IF stats.queries = 0 THEN Zero
                       ELSE ScoreAfterHits[stats.queries]

\* C11: with max_key = 99, sampling_rate = 1.0, hot_threshold = 1.5,
\* decay_alpha = 0.5, max_hot_fraction = 1.0 and inclusive = true, after
\* insert(42, "A") each of three search(42) calls returns "A"; the first
\* two are cold hits that bring the score to 1.0 and to 1.5, the second
\* one promoting the key, the third is a hot hit that brings the score to
\* 1.75; get_stats then reports queries = 3, hot_hits = 1, cold_hits = 2,
\* not_found = 0, hot_keys = 1, cold_keys = 1.
C11_PromoteOnSecondHit ==
    [][/\ (AfterHitsOn42(2) /\ ret'.op = "search" /\ ret'.k = 42)
          => /\ ret'.v = "A"
             /\ ret'.outcome = IF stats.queries < 2 THEN "cold_hit"
                               ELSE "hot_hit"
             /\ hit_score'[42] = ScoreAfterHits[stats.queries + 1]
             /\ hot = IF stats.queries < 2 THEN bt_create ELSE ColdOf42
             /\ hot' = IF stats.queries < 1 THEN bt_create ELSE ColdOf42
       /\ (AfterHitsOn42(3) /\ stats.queries = 3 /\ ret'.op = "get_stats")
          => /\ ret'.st.queries = 3
             /\ ret'.st.hot_hits = 1
             /\ ret'.st.cold_hits = 2
             /\ ret'.st.not_found = 0
             /\ ret'.hot_keys = 1
             /\ ret'.cold_keys = 1]_vars

\* get_stats was just called after insert(42, "A") and three hits on 42
C11_Witness ==
    /\ ret.op = "get_stats"
    /\ ret.st.queries = 3 /\ ret.st.hot_hits = 1 /\ ret.st.cold_hits = 2
    /\ ret.hot_keys = 1 /\ ret.cold_keys = 1
    /\ cold = ColdOf42
    /\ hit_score[42] = [n |-> 7, d |-> 4]

\* C12: hc_search(k) of an in-range key k that was never inserted returns
\* not-found (NULL), increments not_found by exactly 1 and leaves every
\* entry of hit_score, hot and cold unchanged.
C12_MissLeavesTiers ==
    [][(/\ ret'.op = "search"
        /\ ret'.k >= 0 /\ ret'.k <= max_key
        /\ ret'.k \notin DOMAIN cold)
       => (/\ ret'.outcome = "not_found" /\ ret'.v = NULL
           /\ stats'.not_found = stats.not_found + 1
           /\ UNCHANGED <<hit_score, hot, cold>>)]_vars

\* a key that was never inserted was just searched on an index that holds
\* another key in both tiers
C12_Witness ==
    /\ ret.op = "search" /\ ret.k >= 0 /\ ret.k <= max_key
    /\ ret.k \notin DOMAIN cold
    /\ stats.not_found = 1
    /\ hot # << >>

\* C13: hc_insert(k, v) with k in [0, max_key] adds k to cold or replaces
\* its payload there, with a payload a caller can pass, and leaves the
\* other keys of cold, the hot tier, hit_score, the statistics and
\* sampling_rate unchanged; in every state a step reaches, a key of hot has
\* been hit by a search (its score is not the initial 0).
C13_InsertColdOnly ==
    [][/\ (ret'.op = "insert" /\ ret'.k >= 0 /\ ret'.k <= max_key)
          => /\ \E v \in {NULL, "A", "B"} :
                   cold' = bt_insert(cold, ret'.k, v)
             /\ UNCHANGED <<hot, hit_score, stats, params>>
       /\ \A k \in DOMAIN hot' : hit_score'[k] # Zero]_vars

\* an insert just replaced or confirmed the payload of a key that is in
\* hot, next to a key of cold that was never hit
C13_Witness ==
    /\ ret.op = "insert" /\ ret.outcome # "out_of_range"
    /\ ret.k \in DOMAIN hot
    /\ \E k \in DOMAIN cold : hit_score[k] = Zero

\* C14: the hot tier changes only in an hc_search(k) that misses hot, finds
\* k in cold and brings hit_score[k] to hot_threshold or more, and the
\* change is the addition of k with its payload of cold; a cold hit whose
\* updated score is below hot_threshold and any hot hit leave hot
\* unchanged.
C14_PromotionNeedsEligibleColdHit ==
    [][/\ (hot' # hot)
          => /\ ret'.op = "search" /\ ret'.outcome = "cold_hit"
             /\ ret'.k \notin DOMAIN hot
             /\ ret'.k \in DOMAIN cold
             /\ ScoreAtLeast(hit_score'[ret'.k], params.hot_threshold)
             /\ hot' = bt_insert(hot, ret'.k, cold[ret'.k])
       /\ (/\ ret'.op = "search" /\ ret'.outcome = "cold_hit"
           /\ ~ScoreAtLeast(hit_score'[ret'.k], params.hot_threshold))
          => hot' = hot
       /\ (ret'.op = "search" /\ ret'.outcome = "hot_hit")
          => hot' = hot]_vars

\* a cold hit just promoted its key on an index where the second hit is the
\* first eligible one, and another key has had one cold hit and is not in
\* hot
C14_Witness ==
    /\ ret.op = "search" /\ ret.outcome = "cold_hit"
    /\ ret.k \in DOMAIN hot
    /\ params.hot_threshold = 6
    /\ \E k \in DOMAIN cold \ DOMAIN hot : hit_score[k] = [n |-> 1, d |-> 1]

\* C15: no step removes a key from hot, so that a key once in hot is in hot
\* in every later state, and every hc_search of a key that is in hot is a
\* hot hit that does not probe cold (cold_node_visits stays as it is).
C15_NoDemotion ==
    [][/\ DOMAIN hot \subseteq DOMAIN hot'
       /\ (ret'.op = "search" /\ ret'.k \in DOMAIN hot)
          => /\ ret'.outcome = "hot_hit"
             /\ stats'.hot_hits = stats.hot_hits + 1
             /\ stats'.cold_node_visits = stats.cold_node_visits]_vars

\* a promoted key was just searched after its payload in cold had been
\* replaced, by NULL
C15_Witness ==
    /\ ret.op = "search" /\ ret.outcome = "hot_hit"
    /\ ret.k \in DOMAIN hot
    /\ cold[ret.k] = NULL

\* sampling_rate and the adapter's last_q_for_adapt, last_cost and last_D
AdaptState == <<params.sampling_rate, last_q_for_adapt, last_cost, last_D>>

\* C16: sampling_rate and the adapter's state change only in an hc_search
\* made with adapt_sampling enabled in which, once queries is incremented,
\* queries - last_q_for_adapt is at least the window (MIN_DELTA_Q, 5000 in
\* the source); with adapt_sampling disabled sampling_rate never changes;
\* with it enabled each adaptation is exactly one window of queries after
\* the previous one (after hc_create for the first).
C16_AdapterTrigger ==
    [][/\ (AdaptState' # AdaptState)
          => /\ ret'.op = "search"
             /\ params.adapt_sampling
             /\ stats'.queries = stats.queries + 1
             /\ stats'.queries - last_q_for_adapt >= MIN_DELTA_Q
       /\ ~params.adapt_sampling => UNCHANGED AdaptState
       /\ params'.adapt_sampling = params.adapt_sampling
       /\ (last_q_for_adapt' # last_q_for_adapt)
          => /\ last_q_for_adapt' = stats'.queries
             /\ last_q_for_adapt' = last_q_for_adapt + MIN_DELTA_Q
       /\ (params.adapt_sampling /\ ret'.op = "search"
           /\ stats'.queries - last_q_for_adapt >= MIN_DELTA_Q)
          => last_q_for_adapt' = stats'.queries]_vars

\* the second adaptation just ran, one window after the first, and moved
\* the sampling rate
C16_Witness ==
    /\ ret.op = "search"
    /\ last_q_for_adapt = 2 * MIN_DELTA_Q
    /\ stats.queries = last_q_for_adapt
    /\ params.sampling_rate # last_D

\* the cost an adaptation in the next hc_search computes: the node visits
\* so far over the queries, this one included
CostAtCall ==
    Rat(stats.hot_node_visits + stats.cold_node_visits, stats.queries + 1)

\* a step in which an adaptation runs that is not the first one and follows
\* a cycle that moved D
LaterAdaptation ==
    /\ ret'.op = "search"
    /\ last_q_for_adapt' # last_q_for_adapt
    /\ last_q_for_adapt # 0
    /\ params.sampling_rate # last_D

\* C17: at an adaptation that is not the first and follows a cycle that
\* moved D, with dC = cost - last_cost and dD = D - last_D, the new D is
\* clamp(D + 0.05 sign(dD)) when dC * dD < 0, clamp(D - 0.05 sign(dD)) when
\* dC * dD > 0 and D when dC = 0; afterwards last_D is the D in force
\* before, last_cost the cost just computed and last_q_for_adapt the
\* current number of queries.
C17_DecisionRule ==
    [][LaterAdaptation
       => LET D == params.sampling_rate
              dD == Sign(D - last_D)
              dC == SignDiff(CostAtCall, last_cost)
          IN /\ params'.sampling_rate =
                   IF dC * dD < 0 THEN Clamp(D + Step * dD)
                   ELSE IF dC * dD > 0 THEN Clamp(D - Step * dD)
                   ELSE D
             /\ last_D' = D
             /\ last_cost' = CostAtCall
             /\ last_q_for_adapt' = stats'.queries]_vars

\* the second adaptation just raised D from 0.05 to 0.10 on an index
\* created with D = 0: the first one had raised D, the cost fell, and the
\* rule moved D the same way again
C17_Witness ==
    /\ ret.op = "search"
    /\ last_q_for_adapt = 2 * MIN_DELTA_Q
    /\ stats.queries = last_q_for_adapt
    /\ last_D = Step
    /\ params.sampling_rate = 2 * Step

\* the keys of the set S in ascending order
RECURSIVE Ascending(_)
Ascending(S) ==
    IF S = {} THEN << >>
    ELSE LET m == CHOOSE x \in S : \A y \in S : x <= y
         IN <<m>> \o Ascending(S \ {m})

\* C18: hc_range_search(lo, hi, cb) emits the keys of hot in [lo, hi] in
\* ascending order, then the keys of cold in [lo, hi] that are not in hot
\* in ascending order, and nothing else; no cold-only key comes before a
\* hot key.
C18_EmissionOrder ==
    [][ret'.op = "range_search"
       => LET e == ret'.emitted
              inHot == {k \in DOMAIN hot : ret'.k <= k /\ k <= ret'.hi}
              coldOnly == ColdIn(ret'.k, ret'.hi) \ DOMAIN hot
          IN [i \in DOMAIN e |-> e[i][1]]
                = Ascending(inHot) \o Ascending(coldOnly)]_vars

\* a scan just emitted a hot key ahead of a smaller key that is in cold
\* only
C18_Witness ==
    /\ ret.op = "range_search"
    /\ Len(ret.emitted) = 2
    /\ ret.emitted[1][1] > ret.emitted[2][1]
    /\ ret.emitted[1][1] \in DOMAIN hot
    /\ ret.emitted[2][1] \notin DOMAIN hot

\* queries and the three outcome counters
Counters ==
    <<stats.queries, stats.hot_hits, stats.cold_hits, stats.not_found>>

\* C19: in every reachable state queries = hot_hits + cold_hits +
\* not_found; each hc_search increments queries by exactly 1 and exactly
\* one of hot_hits, cold_hits and not_found by exactly 1, leaving the other
\* two; hc_insert, hc_range_search and hc_get_stats change none of the
\* four counters.
C19_OutcomeAccounting ==
    /\ [](stats.queries
             = stats.hot_hits + stats.cold_hits + stats.not_found)
    /\ [][/\ ret'.op = "search"
             => LET dh == stats'.hot_hits - stats.hot_hits
                    dc == stats'.cold_hits - stats.cold_hits
                    dn == stats'.not_found - stats.not_found
                IN /\ stats'.queries = stats.queries + 1
                   /\ {dh, dc, dn} = {0, 1}
                   /\ dh + dc + dn = 1
          /\ ret'.op \in {"insert", "range_search", "get_stats"}
             => UNCHANGED Counters]_vars

\* a scan was just made after a hot hit, a cold hit and a miss
C19_Witness ==
    /\ ret.op = "range_search"
    /\ stats.hot_hits = 1 /\ stats.cold_hits = 1 /\ stats.not_found = 1

\* C20: with adapt_sampling disabled and sampling_rate = 0 the hot tier is
\* empty in every reachable state, whatever the draws u in [0, 1) were,
\* u = 0 included.
C20_ZeroRateHotEmpty ==
    (~params.adapt_sampling /\ params.sampling_rate = 0) => hot = bt_create

====
